---- MODULE Spec2Model ----
(***************************************************************************)
(* QR-code attendance: issuance, scan validation, attendance recording and *)
(* revocation (src/services/qrCodeService.js, the scan route, the lecture  *)
(* delete route and the Attendance pre-save hook), over the three MongoDB  *)
(* collections lectures, qrcodes and attendances.                          *)
(*                                                                         *)
(* Time is in seconds.  Every await on the store is a step of its own, so  *)
(* concurrent requests interleave exactly at the awaits of the source.     *)
(***************************************************************************)
EXTENDS Integers, FiniteSets, Sequences, TLC

\* ------------------------------------------------------------------ bounds
MaxLectures == 1
NumStudents == 2
MaxRequests == 2

\* ------------------------------------------------------- input domains
Students == 1..NumStudents
Codes == 1..MaxLectures
Lecturers == {"L1"}

\* "HH:MM" strings after split(':') and numeric coercion by setHours
Schedules ==
  { [startTime |-> [h |-> 9, m |-> 0], endTime |-> [h |-> 10, m |-> 0]] }

\* req.body.totalStudents (absent is 0 after `|| 0`, lecturer.js:43)
Capacities == {0, 1}

\* req.body.duration in minutes (validated to 5..240, lecturer.js:19)
Durations == {5, 240}

\* req.body.startTime, endTime and venue as strings of characters; the empty
\* string stands for an absent field as well
StartTimeTexts ==
  { <<"0", "9", ":", "0", "0">>, <<"9", ":", "0", "0">>,
    <<"2", "5", ":", "0", "0">>, <<>> }
EndTimeTexts == { <<"1", "0", ":", "0", "0">>, <<"1", "0", ":", "6", "0">> }
VenueTexts == { <<"L", "T">>, <<" ">> }

\* instants the clock visits on day 0: 08:29:59 (before the scan window of a
\* 09:00 lecture), 08:30:00, 09:15:01 and 10:15:01 (after the window)
Instants == {30599, 30600, 33301, 36901}

\* schedules and instants of the single-scan runs: every boundary of the
\* scan window and of the classification, and the second next to it
BoundarySchedules ==
  { [startTime |-> [h |-> 9, m |-> 0], endTime |-> [h |-> 10, m |-> 0]],
    [startTime |-> [h |-> 9, m |-> 0], endTime |-> [h |-> 9, m |-> 10]] }
BoundaryInstants ==
  { 30599, 30600, 33000, 33001, 33300, 33301, 33900, 33901,
    36000, 36001, 36900, 36901 }

\* -------------------------------------------------- program constants
DefaultMaxScans == 100
EarlyWindow == 30 * 60
LateWindow == 15 * 60
LateThreshold == 15 * 60
DaySeconds == 24 * 60 * 60

MsgInvalid == "QR code is invalid, expired, or has reached maximum scans"
MsgLecture == "Lecture is not available"
MsgAlready == "Attendance already marked for this lecture"
MsgWindow == "QR code can only be scanned during lecture time (+-30 minutes)"
MsgValidationFailed == "QR code validation failed: Cast to Number failed for value $maxScans at path scanCount"
MsgRecordFailed == "Failed to record attendance: E11000 duplicate key error"
MsgMarked == "Attendance marked successfully"
MsgReadFailed == "QR code validation failed: connection lost"
MsgWriteFailed == "Failed to record attendance: connection lost"

VARIABLES
  now,        \* the host clock (new Date())
  lectures,   \* collection lectures: _id -> document
  qrcodes,    \* collection qrcodes: _id -> document (uniqueCode = _id)
  attendance, \* collection attendances: set of documents
  reqs,       \* scan requests in flight: position, arguments, loaded documents
  deleting,   \* DELETE /lectures/:id requests between their two writes
  issuing,    \* the POST /generate-qr request: position, body, created _ids
  revoked,    \* history: the tokens for which deactivateQRCode has returned
  admin       \* the lecturer's latest other request: route, arguments, answer

vars ==
  <<now, lectures, qrcodes, attendance, reqs, deleting, issuing, revoked, admin>>

\* the scan requests of a run
Requests == DOMAIN reqs

\* no lecturer request yet
IdleAdmin ==
  [route |-> "", pc |-> "idle", lecturer |-> "", entry |-> 0, supplied |-> "",
   status |-> 0, lectureIds |-> {}, result |-> <<>>]

\* no POST /generate-qr request yet
IdleIssue ==
  [pc |-> "idle", owner |-> "", body |-> <<>>, lectureId |-> 0, qrCodeId |-> 0,
   expiresAt |-> 0, failedWrite |-> "", status |-> 0, thrown |-> FALSE]

IdleReq ==
  [pc |-> "idle", student |-> 0, code |-> 0, status |-> 0, thrown |-> FALSE,
   message |-> "", qrCodeId |-> 0, qrCode |-> <<>>, lecture |-> <<>>,
   scanTime |-> 0, answeredAt |-> 0]

Init ==
  /\ now = 30599
  /\ lectures = <<>>
  /\ qrcodes = <<>>
  /\ attendance = {}
  /\ reqs = [r \in 1..MaxRequests |-> IdleReq]
  /\ deleting = {}
  /\ issuing = IdleIssue
  /\ revoked = {}
  /\ admin = IdleAdmin

\* ------------------------------------------------------------- the clock
Tick ==
  /\ \E t \in Instants : t > now /\ now' = t
  /\ UNCHANGED <<lectures, qrcodes, attendance, reqs, deleting, issuing, revoked, admin>>

\* ------------------------------------------------------------ time policy
\* new Date(date).setHours(h, m, 0, 0): the wall-clock instant h:m of the
\* (host-local, here UTC) day that contains `date`
SetHours(date, hm) == (date - (date % DaySeconds)) + hm.h * 3600 + hm.m * 60

LectureStart(lec) == SetHours(lec.date, lec.startTime)
LectureEnd(lec) == SetHours(lec.date, lec.endTime)

\* (mutant) the scan window with its two end instants excluded
OutsideScanWindowExclusive(t, lec) ==
  \/ t <= LectureStart(lec) - EarlyWindow
  \/ t >= LectureEnd(lec) + LateWindow

\* lines 143-146 of validateQRCode: the scan is refused outside the window
OutsideScanWindow(t, lec) ==
  \/ t < LectureStart(lec) - EarlyWindow
  \/ t > LectureEnd(lec) + LateWindow

\* (mutant) the classification with a scan at the late threshold late and
\* a scan at the lecture's end absent
PreSaveStatusInclusive(scanTime, lec) ==
  IF scanTime >= LectureEnd(lec) THEN "absent"
  ELSE IF scanTime >= LectureStart(lec) + LateThreshold THEN "late"
  ELSE "present"

\* AttendanceSchema.pre('save'), new documents only
PreSaveStatus(scanTime, lec) ==
  IF scanTime > LectureEnd(lec) THEN "absent"
  ELSE IF scanTime > LectureStart(lec) + LateThreshold THEN "late"
  ELSE "present"

\* --------------------------------------------------------------- issuance
DigitValue ==
  ("0" :> 0) @@ ("1" :> 1) @@ ("2" :> 2) @@ ("3" :> 3) @@ ("4" :> 4) @@
  ("5" :> 5) @@ ("6" :> 6) @@ ("7" :> 7) @@ ("8" :> 8) @@ ("9" :> 9)

IsDigit(c) == c \in DOMAIN DigitValue

\* (mutant) a time pattern that lets any hour 20..29 through
MatchesTimeAnyTwenties(t) ==
  \/ /\ Len(t) = 5
     /\ t[1] \in {"0", "1", "2"} /\ IsDigit(t[2])
     /\ t[3] = ":" /\ t[4] \in {"0", "1", "2", "3", "4", "5"} /\ IsDigit(t[5])
  \/ /\ Len(t) = 4
     /\ IsDigit(t[1])
     /\ t[2] = ":" /\ t[3] \in {"0", "1", "2", "3", "4", "5"} /\ IsDigit(t[4])

\* /^([0-1]?[0-9]|2[0-3]):[0-5][0-9]$/ on a string given as its characters
MatchesTime(t) ==
  \/ /\ Len(t) = 5
     /\ \/ t[1] \in {"0", "1"} /\ IsDigit(t[2])
        \/ t[1] = "2" /\ t[2] \in {"0", "1", "2", "3"}
     /\ t[3] = ":" /\ t[4] \in {"0", "1", "2", "3", "4", "5"} /\ IsDigit(t[5])
  \/ /\ Len(t) = 4
     /\ IsDigit(t[1])
     /\ t[2] = ":" /\ t[3] \in {"0", "1", "2", "3", "4", "5"} /\ IsDigit(t[4])

\* Number(s) for a string of decimal digits
RECURSIVE NumberOf(_)
NumberOf(s) ==
  IF s = <<>> THEN 0
  ELSE NumberOf(SubSeq(s, 1, Len(s) - 1)) * 10 + DigitValue[s[Len(s)]]

\* t.split(':') as [h, m], the parts coerced to numbers as setHours does
ParseTime(t) ==
  LET colon == CHOOSE i \in 1..Len(t) : t[i] = ":"
  IN [ h |-> NumberOf(SubSeq(t, 1, colon - 1)),
       m |-> NumberOf(SubSeq(t, colon + 1, Len(t))) ]

\* String.prototype.trim on a string of letters and blanks
RECURSIVE Trim(_)
Trim(s) ==
  IF s = <<>> THEN s
  ELSE IF s[1] = " " THEN Trim(SubSeq(s, 2, Len(s)))
  ELSE IF s[Len(s)] = " " THEN Trim(SubSeq(s, 1, Len(s) - 1))
  ELSE s

\* generateQRValidation (lecturer.js:10-20) on the fields the body varies in
BodyValid(body) ==
  /\ MatchesTime(body.startTime)
  /\ MatchesTime(body.endTime)
  /\ Trim(body.venue) # <<>>
  /\ body.totalStudents = 0 \/ body.totalStudents >= 1
  /\ body.duration >= 5 /\ body.duration <= 240

\* LectureSchema validation on save: required fields and the time pattern
SchemaValid(body) ==
  /\ body.startTime # <<>> /\ MatchesTime(body.startTime)
  /\ body.endTime # <<>> /\ MatchesTime(body.endTime)
  /\ Trim(body.venue) # <<>>
  /\ body.totalStudents >= 0

\* the Lecture document of lectureData (lecturer.js:34-46) with its defaults
NewLecture(owner, sched, cap, qid) ==
  [ lecturerId |-> owner, date |-> 0,
    startTime |-> sched.startTime, endTime |-> sched.endTime,
    totalStudents |-> cap, status |-> "ongoing",
    attendanceCount |-> 0, isActive |-> TRUE, qrCodeId |-> qid ]

\* (mutant) the limit taken from the capacity without the fallback
MaxScansForNoFallback(cap) == cap

\* maxScans: lecture.totalStudents || 100 (qrCodeService.js:52)
MaxScansFor(cap) == IF cap # 0 THEN cap ELSE DefaultMaxScans

\* the QRCode document of lines 47-53 with the schema defaults
NewQRCode(lid, expiresAt, cap) ==
  [ lectureId |-> lid, isActive |-> TRUE, expiresAt |-> expiresAt,
    scanCount |-> 0, maxScans |-> MaxScansFor(cap) ]

\* POST /api/lecturer/generate-qr -> QRCodeService.generateQRCode, with all
\* three writes succeeding and no other request in between
GenerateQRCode(owner, sched, cap, dur) ==
  LET id == Cardinality(DOMAIN lectures) + 1
  IN /\ Cardinality(DOMAIN lectures) < MaxLectures
     /\ lectures' = lectures @@ (id :> NewLecture(owner, sched, cap, id))
     /\ qrcodes' = qrcodes @@ (id :> NewQRCode(id, now + dur * 60, cap))
     /\ UNCHANGED <<now, attendance, reqs, deleting, issuing, revoked, admin>>

\* the issuance request after the route has answered it
IssueRespond(req, st, thrown, failedWrite) ==
  [req EXCEPT !.pc = "done", !.status = st, !.thrown = thrown,
              !.failedWrite = failedWrite]

\* POST /generate-qr up to the first write: the validation middleware
\* (answers 400 itself), then generateQRCode lines 16-24: lecture.save()
\* validates against the schema and inserts, and on return the expiration
\* is computed from a fresh new Date().  ok = FALSE is a failing write.
GenerateLectureSave(owner, body, ok) ==
  LET req == [IdleIssue EXCEPT !.owner = owner, !.body = body]
      id == Cardinality(DOMAIN lectures) + 1
  IN /\ issuing.pc \in {"idle", "done"}
     /\ Cardinality(DOMAIN lectures) < MaxLectures
     /\ IF ~BodyValid(body)
        THEN /\ issuing' = IssueRespond(req, 400, FALSE, "")
             /\ UNCHANGED lectures
        ELSE IF ~SchemaValid(body)
        THEN /\ issuing' = IssueRespond(req, 400, TRUE, "")
             /\ UNCHANGED lectures
        ELSE IF ~ok
        THEN /\ issuing' = IssueRespond(req, 400, TRUE, "lecture")
             /\ UNCHANGED lectures
        ELSE /\ lectures' = lectures @@
                  (id :> NewLecture(owner,
                                    [startTime |-> ParseTime(body.startTime),
                                     endTime |-> ParseTime(body.endTime)],
                                    body.totalStudents, 0))
             /\ issuing' = [req EXCEPT !.pc = "lectureSaved", !.lectureId = id,
                                       !.expiresAt = now + body.duration * 60]
     /\ UNCHANGED <<now, qrcodes, attendance, reqs, deleting, revoked, admin>>

\* lines 36-55: the image is rendered and the token is inserted
GenerateQRSave(ok) ==
  LET q == Cardinality(DOMAIN qrcodes) + 1
  IN /\ issuing.pc = "lectureSaved"
     /\ IF ok
        THEN /\ qrcodes' = qrcodes @@
                  (q :> NewQRCode(issuing.lectureId, issuing.expiresAt,
                                  issuing.body.totalStudents))
             /\ issuing' = [issuing EXCEPT !.pc = "qrSaved", !.qrCodeId = q]
        ELSE /\ issuing' = IssueRespond(issuing, 400, TRUE, "qrCode")
             /\ UNCHANGED qrcodes
     /\ UNCHANGED <<now, lectures, attendance, reqs, deleting, revoked, admin>>

\* (mutant) a link write whose failure is swallowed
GenerateLinkSaveSwallows(ok) ==
  /\ issuing.pc = "qrSaved"
  /\ IF ok
     THEN /\ lectures' = [lectures EXCEPT ![issuing.lectureId].qrCodeId =
                            issuing.qrCodeId]
          /\ issuing' = IssueRespond(issuing, 200, FALSE, "")
     ELSE /\ issuing' = IssueRespond(issuing, 200, FALSE, "link")
          /\ UNCHANGED lectures
  /\ UNCHANGED <<now, qrcodes, attendance, reqs, deleting, revoked, admin>>

\* lines 57-78: lecture.qrCodeId is set and saved, then success is returned
\* and the route answers 200; a throw is answered 400 (lecturer.js:57-63)
GenerateLinkSave(ok) ==
  /\ issuing.pc = "qrSaved"
  /\ IF ok
     THEN /\ lectures' = [lectures EXCEPT ![issuing.lectureId].qrCodeId =
                            issuing.qrCodeId]
          /\ issuing' = IssueRespond(issuing, 200, FALSE, "")
     ELSE /\ issuing' = IssueRespond(issuing, 400, TRUE, "link")
          /\ UNCHANGED lectures
  /\ UNCHANGED <<now, qrcodes, attendance, reqs, deleting, revoked, admin>>

\* ------------------------------------------------------------- validation
\* The operand the query of validateQRCode compares scanCount with
\* (qrCodeService.js:98): the string literal '$maxScans', not a number.
ScanCountOperand == [kind |-> "string", text |-> "$maxScans"]

\* The operand of section 4.2 step 1: the document's own maxScans field.
MaxScansField == [kind |-> "field", text |-> "maxScans"]

\* Mongoose casts the operand of a comparison on a Number path to Number
\* before the query is sent; a string that is no numeral makes the cast
\* fail with CastError and the query is never run.
CastFails(operand) == operand.kind = "string"

\* The value scanCount is compared with, for a document q
OperandValue(operand, q) ==
  IF operand.kind = "field" THEN q[operand.text] ELSE operand.num

\* QRCodeModel.findOne({uniqueCode, isActive: true, expiresAt: {$gt: now},
\*                      scanCount: {$lt: operand}}): the matching _id, or {}
FindOneQRCode(code, t, operand) ==
  { q \in DOMAIN qrcodes :
      /\ q = code
      /\ qrcodes[q].isActive
      /\ qrcodes[q].expiresAt > t
      /\ qrcodes[q].scanCount < OperandValue(operand, qrcodes[q]) }

\* the request after the route has answered it, at the instant `now`
Respond(req, st, thrown, msg) ==
  [req EXCEPT !.pc = "done", !.status = st, !.thrown = thrown, !.message = msg,
              !.qrCode = <<>>, !.lecture = <<>>, !.answeredAt = now]

\* (mutant) a populated lecture accepted whatever its isActive flag
LectureExists(lid) == lid \in DOMAIN lectures

\* qrCode.lectureId && qrCode.lectureId.isActive (lines 108-114)
LectureAvailable(lid) == lid \in DOMAIN lectures /\ lectures[lid].isActive

\* POST /api/student/scan, up to the first await of validateQRCode that
\* returns: the token lookup with its populated lecture (lines 94-114).
\* A thrown CastError is rethrown by validateQRCode (line 160) and answered
\* by the route's catch with status 400 (errorHandler.js:172-177).
ValidateLookup(r, student, code, operand) ==
  LET req == [IdleReq EXCEPT !.student = student, !.code = code]
      found == FindOneQRCode(code, now, operand)
  IN /\ reqs[r].pc = "idle"
     \* request slots are taken in order (the slots are interchangeable)
     /\ \A p \in Requests : p < r => reqs[p].pc # "idle"
     /\ reqs' = [reqs EXCEPT ![r] =
          IF CastFails(operand)
          THEN Respond(req, 400, TRUE, MsgValidationFailed)
          ELSE IF found = {}
          THEN Respond(req, 400, FALSE, MsgInvalid)
          ELSE LET q == CHOOSE x \in found : TRUE
                   lid == qrcodes[q].lectureId
               IN IF ~LectureAvailable(lid)
                  THEN Respond(req, 400, FALSE, MsgLecture)
                  ELSE [req EXCEPT !.pc = "lookedUp", !.qrCodeId = q,
                                   !.qrCode = qrcodes[q],
                                   !.lecture = lectures[lid]]]
     /\ UNCHANGED <<now, lectures, qrcodes, attendance, deleting, issuing, revoked, admin>>

\* The scan request as the source has it: the lookup of line 94 with the
\* operand of line 98
ScanValidate(r) ==
  \E s \in Students, c \in Codes : ValidateLookup(r, s, c, ScanCountOperand)

\* The scan request with the lookup of section 4.2 step 1 (counter < limit)
ScanValidateBelowLimit(r) ==
  \E s \in Students, c \in Codes : ValidateLookup(r, s, c, MaxScansField)

\* Attendance.findOne({studentId, lectureId})
ExistingAttendance(student, lid) ==
  { e \in attendance : e.studentId = student /\ e.lectureId = lid }

\* (mutant) the scan-window check made before the duplicate check
ValidateCheckWindowFirst(r) ==
  LET req == reqs[r]
      lid == req.qrCode.lectureId
  IN /\ req.pc = "lookedUp"
     /\ reqs' = [reqs EXCEPT ![r] =
          IF OutsideScanWindow(now, req.lecture)
          THEN Respond(req, 400, FALSE, MsgWindow)
          ELSE IF ExistingAttendance(req.student, lid) # {}
          THEN Respond(req, 400, FALSE, MsgAlready)
          ELSE [req EXCEPT !.pc = "validated", !.scanTime = now]]
     /\ UNCHANGED <<now, lectures, qrcodes, attendance, deleting, issuing, revoked, admin>>

\* (mutant) a validation that takes a scan from the token's budget before
\* it looks for a duplicate
ValidateCheckConsumes(r) ==
  LET req == reqs[r]
      lid == req.qrCode.lectureId
  IN /\ req.pc = "lookedUp"
     /\ reqs' = [reqs EXCEPT ![r] =
          IF ExistingAttendance(req.student, lid) # {}
          THEN Respond(req, 400, FALSE, MsgAlready)
          ELSE IF OutsideScanWindow(now, req.lecture)
          THEN Respond(req, 400, FALSE, MsgWindow)
          ELSE [req EXCEPT !.pc = "validated", !.scanTime = now]]
     /\ qrcodes' = [qrcodes EXCEPT ![req.qrCodeId].scanCount = @ + 1]
     /\ UNCHANGED <<now, lectures, attendance, deleting, issuing, revoked, admin>>

\* validateQRCode after the await of line 118: the duplicate check, the
\* scan-window check on a fresh new Date(), and on success the synchronous
\* start of recordAttendance, which stamps scanTime (line 182)
ValidateCheck(r) ==
  LET req == reqs[r]
      lid == req.qrCode.lectureId
  IN /\ req.pc = "lookedUp"
     /\ reqs' = [reqs EXCEPT ![r] =
          IF ExistingAttendance(req.student, lid) # {}
          THEN Respond(req, 400, FALSE, MsgAlready)
          ELSE IF OutsideScanWindow(now, req.lecture)
          THEN Respond(req, 400, FALSE, MsgWindow)
          ELSE [req EXCEPT !.pc = "validated", !.scanTime = now]]
     /\ UNCHANGED <<now, lectures, qrcodes, attendance, deleting, issuing, revoked, admin>>

\* -------------------------------------------------------------- recording
\* (mutant) the attendances collection without its unique index
DuplicateKeyNoIndex(student, lid) == FALSE

\* the unique index {studentId, lectureId} of the attendances collection
DuplicateKey(student, lid) ==
  \E e \in attendance : e.studentId = student /\ e.lectureId = lid

\* (mutant) a recording that goes on to the counters after a refused insert
RecordSaveCountsAnyway(r) ==
  LET req == reqs[r]
      lid == req.qrCode.lectureId
      entry == [ id |-> r, studentId |-> req.student, lectureId |-> lid,
                 qrCodeId |-> req.qrCodeId, scanTime |-> req.scanTime,
                 status |-> IF lid \in DOMAIN lectures
                            THEN PreSaveStatus(req.scanTime, lectures[lid])
                            ELSE "present",
                 isVerified |-> TRUE ]
  IN /\ req.pc = "validated"
     /\ IF DuplicateKey(req.student, lid)
        THEN UNCHANGED attendance
        ELSE attendance' = attendance \cup {entry}
     /\ reqs' = [reqs EXCEPT ![r].pc = "saved"]
     /\ UNCHANGED <<now, lectures, qrcodes, deleting, issuing, revoked, admin>>

\* attendance.save() (lines 177-185): the pre-save hook classifies the scan
\* against the stored lecture, then the insert is subject to the unique
\* index; E11000 is rethrown (line 216) and answered 400 by the route
RecordSave(r) ==
  LET req == reqs[r]
      lid == req.qrCode.lectureId
      entry == [ id |-> r, studentId |-> req.student, lectureId |-> lid,
                 qrCodeId |-> req.qrCodeId, scanTime |-> req.scanTime,
                 status |-> IF lid \in DOMAIN lectures
                            THEN PreSaveStatus(req.scanTime, lectures[lid])
                            ELSE "present",
                 isVerified |-> TRUE ]
  IN /\ req.pc = "validated"
     /\ IF DuplicateKey(req.student, lid)
        THEN /\ reqs' = [reqs EXCEPT ![r] = Respond(req, 400, TRUE, MsgRecordFailed)]
             /\ UNCHANGED attendance
        ELSE /\ attendance' = attendance \cup {entry}
             /\ reqs' = [reqs EXCEPT ![r].pc = "saved"]
     /\ UNCHANGED <<now, lectures, qrcodes, deleting, issuing, revoked, admin>>

\* (mutant) the counter write without the deactivation at the limit
RecordQRSaveNoDeactivate(r) ==
  LET req == reqs[r]
  IN /\ req.pc = "saved"
     /\ qrcodes' = [qrcodes EXCEPT ![req.qrCodeId].scanCount =
                      req.qrCode.scanCount + 1]
     /\ reqs' = [reqs EXCEPT ![r].pc = "counted"]
     /\ UNCHANGED <<now, lectures, attendance, deleting, issuing, revoked, admin>>

\* qrCode.scanCount += 1; deactivate at the limit; qrCode.save() (lines
\* 187-192): the loaded document is changed and its modified paths are
\* written back with $set
RecordQRSave(r) ==
  LET req == reqs[r]
      q == req.qrCodeId
      count == req.qrCode.scanCount + 1
  IN /\ req.pc = "saved"
     /\ qrcodes' = [qrcodes EXCEPT ![q] =
          IF count >= req.qrCode.maxScans
          THEN [@ EXCEPT !.scanCount = count, !.isActive = FALSE]
          ELSE [@ EXCEPT !.scanCount = count]]
     /\ reqs' = [reqs EXCEPT ![r].pc = "counted"]
     /\ UNCHANGED <<now, lectures, attendance, deleting, issuing, revoked, admin>>

\* lecture.attendanceCount += 1; lecture.save() (lines 194-196), then the
\* success response of the route
RecordLectureSave(r) ==
  LET req == reqs[r]
      lid == req.qrCode.lectureId
  IN /\ req.pc = "counted"
     /\ lectures' = [lectures EXCEPT ![lid].attendanceCount =
                       req.lecture.attendanceCount + 1]
     /\ reqs' = [reqs EXCEPT ![r] = Respond(req, 200, FALSE, MsgMarked)]
     /\ UNCHANGED <<now, qrcodes, attendance, deleting, issuing, revoked, admin>>

\* a query of validateQRCode rejects (the store is unreachable): the catch
\* of line 158 rethrows and the route's catch answers 400
ValidateFault(r) ==
  /\ reqs[r].pc = "lookedUp"
  /\ reqs' = [reqs EXCEPT ![r] = Respond(reqs[r], 400, TRUE, MsgReadFailed)]
  /\ UNCHANGED <<now, lectures, qrcodes, attendance, deleting, issuing,
                 revoked, admin>>

\* the next save of recordAttendance rejects: the catch of line 214
\* rethrows and the route's catch answers 400; the writes made stay
RecordFault(r) ==
  /\ reqs[r].pc \in {"validated", "saved", "counted"}
  /\ reqs' = [reqs EXCEPT ![r] = Respond(reqs[r], 400, TRUE, MsgWriteFailed)]
  /\ UNCHANGED <<now, lectures, qrcodes, attendance, deleting, issuing,
                 revoked, admin>>

\* ------------------------------------------------------------- revocation
\* (mutant) a revocation that writes a fresh document over the token
DeactivateQRCodeOverwrites(q) ==
  qrcodes' = [qrcodes EXCEPT ![q] =
                [NewQRCode(@.lectureId, now, @.maxScans)
                   EXCEPT !.isActive = FALSE]]

\* QRCodeService.deactivateQRCode: the document with the modified paths
\* isActive and expiresAt written back
DeactivateQRCode(q) ==
  qrcodes' = [qrcodes EXCEPT ![q].isActive = FALSE, ![q].expiresAt = now]

\* DELETE /api/lecturer/lectures/:id by the owner, first write: the lecture
\* is soft-deleted (lines 452-454)
DeleteLectureSave(lid) ==
  /\ lid \in DOMAIN lectures
  /\ lid \notin deleting
  /\ lectures' = [lectures EXCEPT ![lid].isActive = FALSE,
                                  ![lid].status = "cancelled"]
  /\ deleting' = deleting \cup {lid}
  /\ UNCHANGED <<now, qrcodes, attendance, reqs, issuing, revoked, admin>>

\* DELETE /api/lecturer/lectures/:id, second write: the lecture's QR code is
\* deactivated (lines 457-459)
DeleteLectureDeactivate(lid) ==
  LET q == lectures[lid].qrCodeId
  IN /\ lid \in deleting
     /\ IF q \in DOMAIN qrcodes
        THEN /\ DeactivateQRCode(q)
             /\ revoked' = revoked \cup {q}
        \* no qrCodeId: nothing to do; document gone: findById is null,
        \* 'QR code not found' is thrown and the route answers 400
        ELSE UNCHANGED <<qrcodes, revoked>>
     /\ deleting' = deleting \ {lid}
     /\ UNCHANGED <<now, lectures, attendance, reqs, issuing, admin>>

\* ------------------------------------------------- the lecturer's routes
\* the lecturers that send requests: the issuing one and a colleague
Staff == Lecturers \cup {"L2"}

\* req.body of PUT /lectures/:id as a JSON object (key -> value)
UpdateBodies ==
  { ("attendanceCount" :> 1), ("attendanceCount" :> 0),
    ("attendanceCount" :> 0 - 1), ("lecturerId" :> "L2"),
    ("$set" :> ("lecturerId" :> "L2")) }

\* the keys deleted from the copy of the body (lecturer.js:401-404)
ProtectedKeys == {"_id", "lecturerId", "lecturerName", "qrCodeId"}

StripProtected(body) == [k \in DOMAIN body \ ProtectedKeys |-> body[k]]

\* Mongoose's reading of an update document: the keys that are no
\* operators are put under $set, next to the paths of a $set given in it
UpdateSet(update) ==
  LET plain == DOMAIN update \ {"$set"}
      given == IF "$set" \in DOMAIN update THEN update["$set"] ELSE <<>>
  IN [k \in plain \cup DOMAIN given |->
        IF k \in plain THEN update[k] ELSE given[k]]

\* runValidators on the paths the update sets (attendanceCount: min 0)
UpdateValid(set) ==
  "attendanceCount" \in DOMAIN set => set["attendanceCount"] >= 0

\* the paths of the schema take their new values, other keys are dropped
ApplySet(doc, set) ==
  [f \in DOMAIN doc |-> IF f \in DOMAIN set THEN set[f] ELSE doc[f]]

\* the lecturer's request after the route has answered it
AdminRespond(route, lecturer, st) ==
  [IdleAdmin EXCEPT !.route = route, !.pc = "done", !.lecturer = lecturer,
                    !.status = st]

\* PUT /api/lecturer/lectures/:id (lecturer.js:377-425)
UpdateLecture(lecturer, lid, body) ==
  LET set == UpdateSet(StripProtected(body))
  IN /\ lid \in DOMAIN lectures
     /\ IF lectures[lid].lecturerId # lecturer
        THEN /\ admin' = AdminRespond("updateLecture", lecturer, 404)
             /\ UNCHANGED lectures
        ELSE IF ~UpdateValid(set)
        THEN /\ admin' = AdminRespond("updateLecture", lecturer, 400)
             /\ UNCHANGED lectures
        ELSE /\ lectures' = [lectures EXCEPT ![lid] = ApplySet(@, set)]
             /\ admin' = AdminRespond("updateLecture", lecturer, 200)
     /\ UNCHANGED <<now, qrcodes, attendance, reqs, deleting, issuing, revoked>>

\* ------------------------------------------------------- request validation
\* body('status').isIn([...]) (lecturer.js:482)
StatusValues == {"present", "late", "absent", "excused"}

\* validate(validations) of middleware/validation, the middleware it
\* returns: next() when the chains found no error, a 400 answer otherwise
ValidateWith(valid) == IF valid THEN "next" ELSE "rejected"

\* validate itself mounted as the middleware (lecturer.js:484,
\* errorHandler.js:136): Express calls validate(req, res, next), which
\* returns the inner function without running it; next() is not called and
\* nothing is answered
ValidateBare(valid) == "pending"

\* PUT /api/lecturer/attendance/:id/status (lecturer.js:478-528)
UpdateAttendanceStatus(lecturer, eid, status) ==
  LET found == { e \in attendance : e.id = eid }
      request == [IdleAdmin EXCEPT !.route = "status", !.lecturer = lecturer,
                                   !.entry = eid, !.supplied = status]
      answer(st) == [request EXCEPT !.pc = "done", !.status = st]
  IN /\ IF ValidateBare(status \in StatusValues) # "next"
        THEN /\ admin' = [request EXCEPT !.pc = "pending"]
             /\ UNCHANGED attendance
        ELSE IF found = {}
        THEN admin' = answer(404) /\ UNCHANGED attendance
        ELSE LET e == CHOOSE x \in found : TRUE
             IN IF lectures[e.lectureId].lecturerId # lecturer
                THEN admin' = answer(403) /\ UNCHANGED attendance
                \* save() of an existing document: the pre-save hook's
                \* classification is guarded by isNew (Attendance.js:70-71)
                ELSE /\ attendance' = (attendance \ {e}) \cup
                          {[e EXCEPT !.status = status, !.isVerified = FALSE]}
                     /\ admin' = answer(200)
     /\ UNCHANGED <<now, lectures, qrcodes, reqs, deleting, issuing, revoked>>

\* POST /api/student/scan as mounted (errorHandler.js:129-137): the request
\* stops at the validate of line 136
ScanMounted(r) ==
  /\ reqs[r].pc = "idle"
  /\ \A p \in Requests : p < r => reqs[p].pc # "idle"
  /\ \E s \in Students, c \in Codes :
       reqs' = [reqs EXCEPT ![r] =
                  IF ValidateBare(TRUE) # "next"
                  THEN [IdleReq EXCEPT !.pc = "pending", !.student = s,
                                       !.code = c]
                  ELSE [IdleReq EXCEPT !.pc = "mounted", !.student = s,
                                       !.code = c]]
  /\ UNCHANGED <<now, lectures, qrcodes, attendance, deleting, issuing,
                 revoked, admin>>

\* ------------------------------------------------------------- statistics
\* (mutant) a token counted as active on its flag alone
ActiveNowFlagOnly(doc) == doc.isActive

\* q.isActive && q.expiresAt > new Date() (qrCodeService.js:256-258)
ActiveNow(doc) == doc.isActive /\ doc.expiresAt > now

\* qrCodes.reduce((sum, q) => sum + q.scanCount, 0) (line 259)
RECURSIVE SumScanCount(_)
SumScanCount(qs) ==
  IF qs = {} THEN 0
  ELSE LET q == CHOOSE x \in qs : TRUE
       IN qrcodes[q].scanCount + SumScanCount(qs \ {q})

\* (sum / length).toFixed(2), in hundredths rounded to the nearest; the
\* number 0 when there is no token (lines 265-267)
AvgScanRate(sum, len) ==
  IF len > 0
  THEN [text |-> TRUE, hundredths |-> (200 * sum + len) \div (2 * len)]
  ELSE [text |-> FALSE, hundredths |-> 0]

\* getQRCodeStats, first query: Lecture.find({ lecturerId }) (line 250)
StatsFindLectures(lecturer) ==
  /\ admin.pc # "lectures"
  /\ admin' = [IdleAdmin EXCEPT
                 !.route = "stats", !.pc = "lectures", !.lecturer = lecturer,
                 !.lectureIds = { lid \in DOMAIN lectures :
                                    lectures[lid].lecturerId = lecturer }]
  /\ UNCHANGED <<now, lectures, qrcodes, attendance, reqs, deleting, issuing,
                 revoked>>

\* getQRCodeStats, second query and the returned object:
\* QRCodeModel.find({ lectureId: { $in: lectureIds } }) (lines 251-268)
StatsFindQRCodes ==
  LET qs == { q \in DOMAIN qrcodes : qrcodes[q].lectureId \in admin.lectureIds }
  IN /\ admin.route = "stats"
     /\ admin.pc = "lectures"
     /\ admin' = [admin EXCEPT
                    !.pc = "done", !.status = 200,
                    !.result =
                      [ totalQRCodes |-> Cardinality(qs),
                        activeQRCodes |->
                          Cardinality({ q \in qs : ActiveNow(qrcodes[q]) }),
                        totalScans |-> SumScanCount(qs),
                        avgScanRate |->
                          AvgScanRate(SumScanCount(qs), Cardinality(qs)) ]]
     /\ UNCHANGED <<now, lectures, qrcodes, attendance, reqs, deleting,
                    issuing, revoked>>

\* The TTL index on expiresAt (QRCode.js 20-24 and 58-59, expireAfterSeconds
\* 0): the store's monitor removes a token document whose expiresAt is past
TTLExpire(q) ==
  /\ q \in DOMAIN qrcodes
  /\ qrcodes[q].expiresAt < now
  /\ qrcodes' = [x \in DOMAIN qrcodes \ {q} |-> qrcodes[x]]
  /\ UNCHANGED <<now, lectures, attendance, reqs, deleting, issuing,
                 revoked, admin>>

\* ---------------------------------------------------------- specifications
Issue ==
  \E o \in Lecturers, sc \in Schedules, cap \in Capacities, d \in Durations :
    GenerateQRCode(o, sc, cap, d)

\* The handlers as the source has them, the scan handler taken as reached
\* (as mounted the scan route stops at its validate, see ScanMounted)
Next ==
  \/ Tick
  \/ Issue
  \/ \E r \in Requests : ScanValidate(r)
  \/ \E l \in Codes : DeleteLectureSave(l)
  \/ \E l \in Codes : DeleteLectureDeactivate(l)

Spec == Init /\ [][Next]_vars

\* The scan path from an accepted lookup on: validation, recording and the
\* operations that race with them
NextRecorder ==
  \/ Tick
  \/ Issue
  \/ \E r \in Requests : ScanValidateBelowLimit(r)
  \/ \E r \in Requests : ValidateCheck(r)
  \/ \E r \in Requests : RecordSave(r)
  \/ \E r \in Requests : RecordQRSave(r)
  \/ \E r \in Requests : RecordLectureSave(r)
  \/ \E l \in Codes : DeleteLectureSave(l)
  \/ \E l \in Codes : DeleteLectureDeactivate(l)

SpecRecorder == Init /\ [][NextRecorder]_vars

\* Scans against one lecture issued at 08:00 for 240 minutes with no
\* capacity given, at an instant drawn from BoundaryInstants
InitBoundary ==
  /\ now \in BoundaryInstants
  /\ \E sc \in BoundarySchedules :
        /\ lectures = (1 :> [ lecturerId |-> "L1", date |-> 0,
                     startTime |-> sc.startTime, endTime |-> sc.endTime,
                     totalStudents |-> 0, status |-> "ongoing",
                     attendanceCount |-> 0, isActive |-> TRUE, qrCodeId |-> 1 ])
  /\ qrcodes = (1 :> [ lectureId |-> 1, isActive |-> TRUE,
                       expiresAt |-> 28800 + 240 * 60, scanCount |-> 0,
                       maxScans |-> DefaultMaxScans ])
  /\ attendance = {}
  /\ reqs = [r \in 1..MaxRequests |-> IdleReq]
  /\ deleting = {}
  /\ issuing = IdleIssue
  /\ revoked = {}
  /\ admin = IdleAdmin

NextBoundary ==
  \/ \E r \in Requests : ScanValidateBelowLimit(r)
  \/ \E r \in Requests : ValidateCheck(r)
  \/ \E r \in Requests : RecordSave(r)
  \/ \E r \in Requests : RecordQRSave(r)
  \/ \E r \in Requests : RecordLectureSave(r)

SpecBoundary == InitBoundary /\ [][NextBoundary]_vars

\* The scan by the student whose number is the request's, with the lookup
\* of section 4.2 step 1: every request is by a different student
ScanValidateOwn(r) ==
  \E c \in Codes : ValidateLookup(r, r, c, MaxScansField)

\* One more scan request than the other runs have, each by its own student,
\* at 08:30:00 against one lecture (09:00-10:00) issued at 08:00 for 240
\* minutes with no capacity given
InitRace ==
  /\ now = 30600
  /\ lectures = (1 :> NewLecture("L1", CHOOSE sc \in Schedules : TRUE, 0, 1))
  /\ qrcodes = (1 :> NewQRCode(1, 28800 + 240 * 60, 0))
  /\ attendance = {}
  /\ reqs = [r \in 1..(MaxRequests + 1) |-> IdleReq]
  /\ deleting = {}
  /\ issuing = IdleIssue
  /\ revoked = {}
  /\ admin = IdleAdmin

NextRace ==
  \/ \E r \in Requests : ScanValidateOwn(r)
  \/ \E r \in Requests : ValidateCheck(r)
  \/ \E r \in Requests : RecordSave(r)
  \/ \E r \in Requests : RecordQRSave(r)
  \/ \E r \in Requests : RecordLectureSave(r)

SpecRace == InitRace /\ [][NextRace]_vars

\* Scans at 08:30:00 against one lecture (09:00-10:00) issued at 08:00 for
\* 240 minutes with no capacity given, every query and save of a request
\* succeeding or failing
InitFaults ==
  /\ now = 30600
  /\ lectures = (1 :> NewLecture("L1", CHOOSE sc \in Schedules : TRUE, 0, 1))
  /\ qrcodes = (1 :> NewQRCode(1, 28800 + 240 * 60, 0))
  /\ attendance = {}
  /\ reqs = [r \in 1..MaxRequests |-> IdleReq]
  /\ deleting = {}
  /\ issuing = IdleIssue
  /\ revoked = {}
  /\ admin = IdleAdmin

NextFaults ==
  \/ \E r \in Requests : ScanValidateBelowLimit(r)
  \/ \E r \in Requests : ValidateCheck(r)
  \/ \E r \in Requests : ValidateFault(r)
  \/ \E r \in Requests : RecordSave(r)
  \/ \E r \in Requests : RecordQRSave(r)
  \/ \E r \in Requests : RecordLectureSave(r)
  \/ \E r \in Requests : RecordFault(r)

SpecFaults == InitFaults /\ [][NextFaults]_vars

\* Issuance write by write, one request after the other, each write
\* succeeding or failing
IssueBodies ==
  [ startTime : StartTimeTexts, endTime : EndTimeTexts, venue : VenueTexts,
    totalStudents : Capacities, duration : Durations ]

NextIssuance ==
  \/ Tick
  \/ \E o \in Lecturers, b \in IssueBodies, ok \in BOOLEAN :
        GenerateLectureSave(o, b, ok)
  \/ \E ok \in BOOLEAN : GenerateQRSave(ok)
  \/ \E ok \in BOOLEAN : GenerateLinkSave(ok)

SpecIssuance == Init /\ [][NextIssuance]_vars

\* Statistics over a store of one lecture more than the other runs have,
\* each of either lecturer and with a token that is fresh or scanned
\* twice, expired or not, revoked, or exhausted at a capacity of two
StatsTokens(lid) ==
  LET fresh(e) == NewQRCode(lid, e, 0)
  IN { [fresh(e) EXCEPT !.scanCount = c] : e \in {30599, 33300}, c \in {0, 2} }
     \cup { [fresh(30599) EXCEPT !.isActive = FALSE, !.scanCount = c] :
              c \in {0, 2} }
     \cup { [NewQRCode(lid, 33300, 2) EXCEPT !.isActive = FALSE,
                                             !.scanCount = 2] }

InitStats ==
  /\ now = 30600
  /\ \E owner \in [1..(MaxLectures + 1) -> Staff] :
       lectures = [lid \in 1..(MaxLectures + 1) |->
                     NewLecture(owner[lid], CHOOSE sc \in Schedules : TRUE,
                                0, lid)]
  /\ qrcodes \in { f \in [1..(MaxLectures + 1) ->
                             UNION { StatsTokens(l) : l \in 1..(MaxLectures + 1) }] :
                     \A l \in DOMAIN f : f[l].lectureId = l }
  /\ attendance = {}
  /\ reqs = [r \in 1..MaxRequests |-> IdleReq]
  /\ deleting = {}
  /\ issuing = IdleIssue
  /\ revoked = {}
  /\ admin = IdleAdmin

NextStats ==
  \/ Tick
  \/ \E q \in DOMAIN qrcodes : TTLExpire(q)
  \/ \E l \in Staff : StatsFindLectures(l)
  \/ StatsFindQRCodes

SpecStats == InitStats /\ [][NextStats]_vars

\* Status updates on a store that holds one recorded scan: student 1 scanned
\* at 08:30:00 the token of a lecture (09:00-10:00) of lecturer L1
InitStatus ==
  /\ now = 30600
  /\ lectures = (1 :> [NewLecture("L1", CHOOSE sc \in Schedules : TRUE, 0, 1)
                         EXCEPT !.attendanceCount = 1])
  /\ qrcodes = (1 :> [NewQRCode(1, 28800 + 240 * 60, 0) EXCEPT !.scanCount = 1])
  /\ attendance = { [ id |-> 0, studentId |-> 1, lectureId |-> 1,
                      qrCodeId |-> 1, scanTime |-> 30600,
                      status |-> PreSaveStatus(30600, lectures[1]),
                      isVerified |-> TRUE ] }
  /\ reqs = [r \in 1..MaxRequests |-> IdleReq]
  /\ deleting = {}
  /\ issuing = IdleIssue
  /\ revoked = {}
  /\ admin = IdleAdmin

NextStatus ==
  \/ Tick
  \/ \E l \in Staff, eid \in 0..MaxRequests, st \in StatusValues \cup {""} :
       UpdateAttendanceStatus(l, eid, st)
  \/ \E r \in Requests : ScanValidateBelowLimit(r)
  \/ \E r \in Requests : ValidateCheck(r)
  \/ \E r \in Requests : RecordSave(r)
  \/ \E r \in Requests : RecordQRSave(r)
  \/ \E r \in Requests : RecordLectureSave(r)

SpecStatus == InitStatus /\ [][NextStatus]_vars

\* The routes as mounted, from an empty store
NextRoutes ==
  \/ Tick
  \/ Issue
  \/ \E l \in Staff, lid \in Codes, b \in UpdateBodies : UpdateLecture(l, lid, b)
  \/ \E l \in Codes : DeleteLectureSave(l)
  \/ \E l \in Codes : DeleteLectureDeactivate(l)
  \/ \E q \in Codes : TTLExpire(q)
  \/ \E r \in Requests : ScanMounted(r)

SpecRoutes == Init /\ [][NextRoutes]_vars

\* ------------------------------------------------------------------ claims
\* the request r got through validateQRCode (valid = true)
Accepted(r) == reqs[r].scanTime # 0

\* the request r has been through attendance.save()
PastSave(r) ==
  \/ reqs[r].pc \in {"saved", "counted"}
  \/ reqs[r].pc = "done" /\ Accepted(r)

\* the request r created an attendance entry
Recorded(r) == \E e \in attendance : e.id = r

EntriesThrough(q) == { e \in attendance : e.qrCodeId = q }

\* the conditions of section 4.2 on a scan of code c by student s at `now`
TokenUsable(c) ==
  /\ c \in DOMAIN qrcodes
  /\ qrcodes[c].isActive
  /\ qrcodes[c].expiresAt > now
  /\ qrcodes[c].scanCount < qrcodes[c].maxScans

SessionAvailable(c) ==
  /\ qrcodes[c].lectureId \in DOMAIN lectures
  /\ lectures[qrcodes[c].lectureId].isActive

HasEntry(s, lid) ==
  \E e \in attendance : e.studentId = s /\ e.lectureId = lid

InWindow(t, lec) ==
  /\ LectureStart(lec) - 30 * 60 <= t
  /\ t <= LectureEnd(lec) + 15 * 60

C4_EligibleScanAccepted ==
  [][ \A r \in Requests :
        /\ ( /\ reqs[r].pc = "idle" /\ reqs'[r].pc # "idle"
             /\ TokenUsable(reqs'[r].code)
             /\ SessionAvailable(reqs'[r].code)
             /\ ~HasEntry(reqs'[r].student, qrcodes[reqs'[r].code].lectureId)
             /\ InWindow(now, lectures[qrcodes[reqs'[r].code].lectureId]) )
           => reqs'[r].pc = "lookedUp"
        /\ ( /\ reqs[r].pc = "lookedUp" /\ reqs'[r].pc # "lookedUp"
             /\ ~HasEntry(reqs[r].student, reqs[r].qrCode.lectureId)
             /\ InWindow(now, reqs[r].lecture) )
           => reqs'[r].pc = "validated" ]_vars

C14_RevocationIdempotent ==
  [][ \A lid \in deleting : lid \notin deleting' =>
        LET q == lectures[lid].qrCodeId
        IN q \in revoked =>
             /\ qrcodes'[q].isActive = qrcodes[q].isActive
             /\ qrcodes'[q].expiresAt = qrcodes[q].expiresAt
             /\ qrcodes'[q].scanCount = qrcodes[q].scanCount ]_vars

\* C15: every token generateQRCode creates starts with scanCount = 0,
\* isActive = true, expiresAt = the issuance instant + the validity in
\* minutes, and maxScans = the session's capacity, or 100 when the capacity
\* is absent or zero, so that maxScans >= 1.
C15_NewTokenFields ==
  [][ /\ issuing'.pc = "lectureSaved" /\ issuing.pc # "lectureSaved"
         => issuing'.expiresAt = now + issuing'.body.duration * 60
      /\ \A q \in DOMAIN qrcodes' \ DOMAIN qrcodes :
           LET cap == issuing.body.totalStudents
           IN /\ qrcodes'[q].scanCount = 0
              /\ qrcodes'[q].isActive
              /\ qrcodes'[q].expiresAt = issuing.expiresAt
              /\ qrcodes'[q].lectureId = issuing.lectureId
              /\ qrcodes'[q].maxScans = (IF cap >= 1 THEN cap ELSE 100)
              /\ qrcodes'[q].maxScans >= 1 ]_vars

\* a token issued for a lecture without a capacity, after the clock moved
\* between the issuance instant and the token's insert
C15_Witness ==
  /\ issuing.qrCodeId \in DOMAIN qrcodes
  /\ issuing.body.totalStudents = 0
  /\ qrcodes[issuing.qrCodeId].maxScans = 100
  /\ qrcodes[issuing.qrCodeId].expiresAt < now + issuing.body.duration * 60

\* C16: generateQRCode is answered with success only when the session
\* stores the token reference and the token stores the session reference,
\* and a request one of whose writes (session insert, token insert, link
\* update) failed is answered with a failure.
C16_SuccessMeansLinked ==
  /\ (issuing.pc = "done" /\ issuing.status = 200) =>
        /\ issuing.lectureId \in DOMAIN lectures
        /\ issuing.qrCodeId \in DOMAIN qrcodes
        /\ lectures[issuing.lectureId].qrCodeId = issuing.qrCodeId
        /\ qrcodes[issuing.qrCodeId].lectureId = issuing.lectureId
  /\ issuing.failedWrite # "" =>
        (issuing.pc = "done" /\ issuing.status = 400 /\ issuing.thrown)

\* a request whose link update failed after both inserts: answered 400,
\* with the session stored without a token reference
C16_Witness ==
  /\ issuing.pc = "done" /\ issuing.status = 400
  /\ issuing.failedWrite = "link"
  /\ issuing.qrCodeId \in DOMAIN qrcodes
  /\ lectures[issuing.lectureId].qrCodeId = 0

\* "H:MM" or "HH:MM" with the hour in 0..23 and the minute in 00..59
WellFormedTime(t) ==
  /\ Len(t) \in {4, 5}
  /\ t[Len(t) - 2] = ":"
  /\ \A i \in 1..Len(t) : i # Len(t) - 2 => IsDigit(t[i])
  /\ NumberOf(SubSeq(t, 1, Len(t) - 3)) <= 23
  /\ NumberOf(SubSeq(t, Len(t) - 1, Len(t))) <= 59

Blank(text) == \A i \in 1..Len(text) : text[i] = " "

\* C17: issuance with a malformed startTime or endTime or with a missing
\* schedule or venue field fails with a validation error and persists
\* neither a session nor a token.
C17_MalformedIssuancePersistsNothing ==
  [][ ( /\ issuing.pc \in {"idle", "done"} /\ issuing' # issuing
        /\ \/ ~WellFormedTime(issuing'.body.startTime)
           \/ ~WellFormedTime(issuing'.body.endTime)
           \/ Blank(issuing'.body.venue) )
      => /\ issuing'.pc = "done" /\ issuing'.status = 400
         /\ issuing'.failedWrite = ""
         /\ UNCHANGED <<lectures, qrcodes>> ]_vars

\* the request with startTime "25:00", answered 400 with nothing stored
C17_Witness ==
  /\ issuing.pc = "done" /\ issuing.status = 400
  /\ issuing.body.startTime = <<"2", "5", ":", "0", "0">>
  /\ lectures = <<>> /\ qrcodes = <<>>

\* no scan request is between its first step and its answer
NoScanInFlight == \A r \in Requests : reqs[r].pc \in {"idle", "done"}

EntriesFor(lid) == { e \in attendance : e.lectureId = lid }

C21_SessionCounterNeverLowered ==
  [][ \A lid \in DOMAIN lectures :
        lectures'[lid].attendanceCount >= lectures[lid].attendanceCount ]_vars

C23_DeactivationKeepsRecords ==
  [][ /\ \A q \in DOMAIN qrcodes : q \in DOMAIN qrcodes'
      /\ \A e \in attendance : e \in attendance' ]_vars

\* C24: getQRCodeStats is a pure read: no step of it changes a lecture, a
\* token or an entry, and what it returns for a lecturer is the number of
\* tokens of that lecturer's lectures, the number of those that are active
\* and unexpired, and the sum of their scanCount; the average is 0 when the
\* lecturer has no token.
OwnedTokens(lecturer) ==
  { q \in DOMAIN qrcodes :
      /\ qrcodes[q].lectureId \in DOMAIN lectures
      /\ lectures[qrcodes[q].lectureId].lecturerId = lecturer }

RejectionReasons == {MsgInvalid, MsgLecture, MsgAlready, MsgWindow}

C25_RejectionsAreResults ==
  /\ Cardinality(RejectionReasons) = 4
  /\ \A r \in Requests :
       (reqs[r].pc = "done" /\ reqs[r].status # 200)
       => (~reqs[r].thrown /\ reqs[r].message \in RejectionReasons)

\* C26: the scan endpoint answers a validation or business-rule rejection
\* with a client-error status and an unexpected persistence failure during
\* validation or recording with a server-error status, never a client-error
\* one.
PersistenceFailure(r) == reqs[r].message \in {MsgReadFailed, MsgWriteFailed}

EntryById(entries, eid) == { e \in entries : e.id = eid }

OwnsEntry(lecturer, eid) ==
  \E e \in EntryById(attendance, eid) :
    lectures[e.lectureId].lecturerId = lecturer

C29_ReferencesImmutable ==
  [][ /\ \A lid \in DOMAIN lectures \cap DOMAIN lectures' :
           /\ lectures'[lid].lecturerId = lectures[lid].lecturerId
           /\ lectures'[lid].qrCodeId = lectures[lid].qrCodeId
      /\ \A q \in DOMAIN qrcodes \cap DOMAIN qrcodes' :
           qrcodes'[q].lectureId = qrcodes[q].lectureId
      /\ \A q1, q2 \in DOMAIN qrcodes' :
           qrcodes'[q1].lectureId = qrcodes'[q2].lectureId => q1 = q2 ]_vars

====
